---- MODULE Spec2Model ----
(***************************************************************************)
(* A model of the gigachat desktop assistant: the ClippyAgent responder    *)
(* chain with its bounded conversation history (src/core/agent.rs, the     *)
(* older src/agent.rs, src/gigachat.rs, src/ai/local.rs,                   *)
(* src/services/storage.rs), the gui's submit / receive state machine      *)
(* (src/gui.rs, src/ui/app.rs) and the bubble placement                    *)
(* (src/ui/chat_bubble.rs).                                                *)
(*                                                                         *)
(* Texts are sequences of characters (one-character strings).  The source  *)
(* texts are Russian; the module spells them in Latin transliteration.  A  *)
(* canned reply is a one-element sequence holding the whole reply.         *)
(***************************************************************************)
EXTENDS Integers, Sequences, FiniteSets, TLC

----------------------------------------------------------------------------
(* Bounds of the model *)

\* get_response calls with a non-empty input (turns) per behaviour
MaxTurns == 4
\* turns per behaviour of the specification of the long histories
MaxLongTurns == 6
\* clear_history calls per behaviour
MaxClears == 1
\* durable-store calls that fail per behaviour
MaxFaults == 1

(* Program constants *)

\* "while self.conversation_history.len() > 10"
HistoryLimit == 10

----------------------------------------------------------------------------
(* Texts *)

Whitespace == {" ", "\t", "\n"}

RECURSIVE TrimStart(_)
TrimStart(s) ==
  IF s = <<>> THEN <<>>
  ELSE IF Head(s) \in Whitespace THEN TrimStart(Tail(s)) ELSE s

RECURSIVE TrimEnd(_)
TrimEnd(s) ==
  IF s = <<>> THEN <<>>
  ELSE IF s[Len(s)] \in Whitespace THEN TrimEnd(SubSeq(s, 1, Len(s) - 1)) ELSE s

\* str::trim
Trim(s) == TrimEnd(TrimStart(s))

UpperChars == <<"A", "B", "C", "D", "E", "F", "G", "H", "I", "J", "K", "L", "M",
                "N", "O", "P", "Q", "R", "S", "T", "U", "V", "W", "X", "Y", "Z">>
LowerChars == <<"a", "b", "c", "d", "e", "f", "g", "h", "i", "j", "k", "l", "m",
                "n", "o", "p", "q", "r", "s", "t", "u", "v", "w", "x", "y", "z">>

ToLowerChar(c) ==
  IF \E i \in 1..Len(UpperChars) : UpperChars[i] = c
  THEN LowerChars[CHOOSE i \in 1..Len(UpperChars) : UpperChars[i] = c]
  ELSE c

\* a text left in the case it is in
KeepCase(s) == s

\* str::to_lowercase
ToLowercase(s) == [i \in 1..Len(s) |-> ToLowerChar(s[i])]

\* str::contains
Contains(s, kw) ==
  \E i \in 1..(Len(s) - Len(kw) + 1) : SubSeq(s, i, i + Len(kw) - 1) = kw

KwPrivet == <<"p", "r", "i", "v", "e", "t">>
KwZdravstvuj == <<"z", "d", "r", "a", "v", "s", "t", "v", "u", "j">>
KwPoka == <<"p", "o", "k", "a">>
KwDoSvidaniya == <<"d", "o", " ", "s", "v", "i", "d", "a", "n", "i", "y", "a">>
KwPomosch == <<"p", "o", "m", "o", "s", "c", "h">>
KwPomogi == <<"p", "o", "m", "o", "g", "i">>
KwVremya == <<"v", "r", "e", "m", "y", "a">>
KwKotoryjChas == <<"k", "o", "t", "o", "r", "y", "j", " ", "c", "h", "a", "s">>

GreetingReply == <<"Privet! Kak dela? Chem ya mogu tebe pomoch?">>
FarewellReply == <<"Do svidaniya! Udachi tebe!">>
HelpReply == <<"Ya mogu pomoch s: ...">>
TimeReply == <<"Pozhalujsta, posmotrite vremya v sisteme.">>
DefaultReply == <<"Interesnyj vopros! ...">>

\* LocalAI::get_response
LocalAIGetResponse(user_input_) ==
  LET input_lower == ToLowercase(user_input_) IN
  IF Contains(input_lower, KwPrivet) \/ Contains(input_lower, KwZdravstvuj)
    THEN GreetingReply
  ELSE IF Contains(input_lower, KwPoka) \/ Contains(input_lower, KwDoSvidaniya)
    THEN FarewellReply
  ELSE IF Contains(input_lower, KwPomosch) \/ Contains(input_lower, KwPomogi)
    THEN HelpReply
  ELSE IF Contains(input_lower, KwVremya) \/ Contains(input_lower, KwKotoryjChas)
    THEN TimeReply
  ELSE DefaultReply

\* "Чем могу помочь?"
Prompt == <<"Chem mogu pomoch?">>
\* the text core get_openai_response returns
OpenAIStubText == <<"OpenAI eschyo ne integrirovan v etu versiyu.">>
\* the texts the older get_openai_response returns when the call fails
OpenAITransportText == <<"Oshibka svyazi s OpenAI">>
OpenAINoChoiceText == <<"Net otveta ot OpenAI">>
OpenAIDecodeText == <<"Oshibka razbora otveta ot OpenAI">>

Hello == <<"P", "r", "i", "v", "e", "t">>
Bye == <<"p", "o", "k", "a">>
Blank3 == <<" ", " ", " ">>

\* the texts a caller passes to get_response
Inputs == {<<>>, Blank3, Hello}
\* the reply texts a remote backend produces
GigaReplies == {<<"g">>}
OpenAIReplies == {<<"o">>}
\* the ways a remote call fails
ErrorKinds == {"Transport", "Status", "Decode", "NoChoice"}

----------------------------------------------------------------------------
(* The ClippyAgent *)

VARIABLES
  impl,                 \* "core": src/core/agent.rs, "legacy": src/agent.rs
  config,               \* Config: gigachat_api_key, use_openai, openai_api_key
  storage,              \* ClippyAgent.storage is Some(SQLiteStorage)
  conversation_history, \* ClippyAgent.conversation_history
  gigachat_history,     \* GigaChatClient.conversation_history
  current_model,        \* ClippyAgent.current_model
  db,                   \* the rows of the conversations table
  pc,                   \* where the running get_response call is
  user_input,           \* the argument of the latest get_response call
  request,              \* the messages of the latest remote request
  response,             \* the reply get_ai_response produced in this turn
  invoked,              \* the backends invoked in this turn, with their outcome
  returned,             \* what the latest get_response call returned
  pushed,               \* every message pushed to conversation_history since the last clear
  turns,                \* get_response calls with a non-empty input so far
  clears,               \* clear_history calls so far
  faults,               \* durable-store calls that failed so far
  log_debug,            \* the log's level lets debug records through (RUST_LOG)
  op                    \* the latest operation called on the agent

agentVars == <<impl, log_debug, config, storage, conversation_history, gigachat_history,
               current_model, db, pc, user_input, request, response, invoked,
               returned, pushed, turns, clears, faults, op>>

Message(role, content) == [role |-> role, content |-> content]

\* a row of the conversations table
Row(session, role, content, model) ==
  [session_id |-> session, role |-> role, content |-> content, model |-> model]

\* the session_id SQLiteStorage::new generates, and one of an earlier run
ThisSession == "this"
OtherSession == "other"

\* the trimming with pop_back in place of pop_front
TrimmedFromBack(h) ==
  IF Len(h) > HistoryLimit THEN SubSeq(h, 1, HistoryLimit) ELSE h

\* "while self.conversation_history.len() > 10 { pop_front }"
Trimmed(h) ==
  IF Len(h) > HistoryLimit THEN SubSeq(h, Len(h) - HistoryLimit + 1, Len(h)) ELSE h

\* ClippyAgent::new: the client exists when the key is Some and not empty
HasGigaChat == config.gigachat_api_key = "key"

\* "self.config.use_openai && self.config.openai_api_key.is_some()"
HasOpenAI == config.use_openai /\ config.openai_api_key

Configs ==
  { c \in [gigachat_api_key : {"none", "empty", "key"},
           use_openai : BOOLEAN, openai_api_key : BOOLEAN] :
      \* Config::default: use_openai = use_openai && openai_api_key.is_some()
      c.use_openai => c.openai_api_key }

\* ClippyAgent::new, GigaChatClient::new
InitAgent ==
  /\ impl \in {"core", "legacy"}
  /\ config \in Configs
  /\ storage \in (IF impl = "core" THEN BOOLEAN ELSE {FALSE})
  /\ log_debug \in (IF storage THEN BOOLEAN ELSE {FALSE})
  /\ conversation_history = <<>>
  /\ gigachat_history = <<>>
  /\ current_model = "Local"
  /\ db = <<Row(OtherSession, "user", Hello, "Local")>>
  /\ pc = "idle"
  /\ user_input = <<>>
  /\ request = <<>>
  /\ response = <<>>
  /\ invoked = <<>>
  /\ returned = <<>>
  /\ pushed = <<>>
  /\ turns = 0
  /\ clears = 0
  /\ faults = 0
  /\ op = "none"

\* SQLiteStorage::save_message: the row is inserted unless the call fails
SaveMessage(rows, role, content, model, fails) ==
  IF fails THEN rows ELSE Append(rows, Row(ThisSession, role, content, model))

\* a delete that is not scoped to the session: every row goes
ClearEverySession(rows, fails) == IF fails THEN rows ELSE <<>>

\* SQLiteStorage::clear_session_history
ClearSessionHistory(rows, fails) ==
  IF fails THEN rows ELSE SelectSeq(rows, LAMBDA r : r.session_id # ThisSession)

\* a request built before the user message is pushed
GigaChatPushUserLate(h, input) == h

\* GigaChatClient::get_response up to the request: push the user message, trim
GigaChatPushUser(h, input) == Trimmed(Append(h, Message("user", input)))

\* GigaChatClient::get_response after a reply: push the assistant message, trim
GigaChatPushAssistant(h, reply) == Trimmed(Append(h, Message("assistant", reply)))

\* the outcome of one backend invocation; ok = the backend produced a reply
Outcome(backend, ok, text) == [backend |-> backend, ok |-> ok, text |-> text]

\* get_ai_response after the primary: OpenAI (a stub) or the local rules
CoreFallback(input) ==
  IF HasOpenAI
  THEN [model |-> "OpenAI", text |-> OpenAIStubText,
        outcome |-> Outcome("OpenAI", FALSE, OpenAIStubText)]
  ELSE [model |-> "Local", text |-> LocalAIGetResponse(input),
        outcome |-> Outcome("Local", TRUE, LocalAIGetResponse(input))]

\* the empty-input check without the trim
IsEmptyInputNoTrim(input) == input = <<>>

\* the empty-input check of get_response
IsEmptyInput(input) == Trim(input) = <<>>

\* core get_response, from the call to the first await
CoreGetResponse(input) ==
  /\ op' = "get_response"
  /\ impl = "core" /\ pc = "idle"
  /\ turns' = turns + (IF IsEmptyInput(input) THEN 0 ELSE 1)
  /\ user_input' = input
  /\ IF IsEmptyInput(input)
     THEN /\ returned' = Prompt
          /\ invoked' = <<>>
          /\ UNCHANGED <<pc, gigachat_history, request, response, current_model>>
     ELSE /\ returned' = <<>>
          /\ IF HasGigaChat
             THEN /\ gigachat_history' = GigaChatPushUser(gigachat_history, input)
                  /\ request' = gigachat_history'
                  /\ pc' = "gigachat"
                  /\ invoked' = <<>>
                  /\ UNCHANGED <<response, current_model>>
             ELSE /\ current_model' = CoreFallback(input).model
                  /\ response' = CoreFallback(input).text
                  /\ invoked' = <<CoreFallback(input).outcome>>
                  /\ pc' = "record"
                  /\ UNCHANGED <<gigachat_history, request>>
  /\ UNCHANGED <<impl, log_debug, config, storage, conversation_history, db, pushed, clears, faults>>

\* the primary replies: GigaChatClient::get_response Ok, get_ai_response Ok arm
CoreGigaChatOk(reply) ==
  /\ impl = "core" /\ pc = "gigachat"
  /\ gigachat_history' = GigaChatPushAssistant(gigachat_history, reply)
  /\ current_model' = "GigaChat"
  /\ response' = reply
  /\ invoked' = Append(invoked, Outcome("GigaChat", TRUE, reply))
  /\ pc' = "record"
  /\ UNCHANGED <<op, impl, log_debug, config, storage, conversation_history, db, user_input,
                 request, returned, pushed, turns, clears, faults, op>>

\* the primary fails: GigaChatClient::get_response Err, then the fallback
CoreGigaChatErr(kind) ==
  /\ impl = "core" /\ pc = "gigachat"
  /\ current_model' = CoreFallback(user_input).model
  /\ response' = CoreFallback(user_input).text
  /\ invoked' = invoked \o <<Outcome("GigaChat", FALSE, <<>>),
                             CoreFallback(user_input).outcome>>
  /\ pc' = "record"
  /\ UNCHANGED <<op, impl, log_debug, config, storage, conversation_history, gigachat_history, db,
                 user_input, request, returned, pushed, turns, clears, faults, op>>

\* the texts longer than 50 bytes whose byte 50 lies inside a character
\* (of the texts of this model; the Cyrillic letters take two bytes each)
SplitAtByte50 == {TimeReply, OpenAIStubText}

\* save_message after its INSERT: the debug record slices the content at byte
\* 50, which panics inside a character; the slice is evaluated only when the
\* log's level lets debug records through
SaveMessagePanics(content) == log_debug /\ content \in SplitAtByte50

\* the turn's writes to the store up to the first save_message that panics
RecordPanicsAtUser(fail_user) == ~fail_user /\ SaveMessagePanics(user_input)
RecordPanicsAtAssistant(fail_assistant) ==
  ~fail_assistant /\ SaveMessagePanics(response)

\* core get_response after get_ai_response, when a save_message panics: both
\* messages are pushed, the rows written before the panic stay, nothing is
\* returned; "after" is where the unwinding leaves the agent
RecordPanic(fail_user, after) ==
  LET user == Message("user", user_input)
      assistant == Message("assistant", response)
  IN
  /\ impl = "core" /\ pc = "record" /\ storage
  /\ RecordPanicsAtUser(fail_user) \/ RecordPanicsAtAssistant(FALSE)
  /\ fail_user => faults < MaxFaults
  /\ faults' = faults + (IF fail_user THEN 1 ELSE 0)
  /\ conversation_history' = Trimmed(Append(Append(conversation_history, user), assistant))
  /\ pushed' = Append(Append(pushed, user), assistant)
  /\ db' = IF RecordPanicsAtUser(fail_user)
           THEN SaveMessage(db, "user", user_input, current_model, FALSE)
           ELSE SaveMessage(SaveMessage(db, "user", user_input, current_model, fail_user),
                            "assistant", response, current_model, FALSE)
  /\ pc' = after
  /\ UNCHANGED <<op, impl, log_debug, config, storage, gigachat_history, current_model,
                 user_input, request, response, invoked, returned, turns, clears>>

\* the panic of a get_response call made on the agent directly
CoreRecordPanics(fail_user) == RecordPanic(fail_user, "panicked")

\* core get_response after get_ai_response: push both messages, trim, save, return
CoreRecord(fail_user, fail_assistant) ==
  LET n == (IF fail_user THEN 1 ELSE 0) + (IF fail_assistant THEN 1 ELSE 0)
      user == Message("user", user_input)
      assistant == Message("assistant", response)
  IN
  /\ impl = "core" /\ pc = "record"
  /\ storage => ~RecordPanicsAtUser(fail_user) /\ ~RecordPanicsAtAssistant(fail_assistant)
  /\ n > 0 => storage /\ faults + n <= MaxFaults
  /\ faults' = faults + n
  /\ conversation_history' = Trimmed(Append(Append(conversation_history, user), assistant))
  /\ pushed' = Append(Append(pushed, user), assistant)
  /\ db' = IF storage
           THEN SaveMessage(SaveMessage(db, "user", user_input, current_model, fail_user),
                            "assistant", response, current_model, fail_assistant)
           ELSE db
  /\ returned' = response
  /\ pc' = "idle"
  /\ UNCHANGED <<op, impl, log_debug, config, storage, gigachat_history, current_model, user_input,
                 request, response, invoked, turns, clears>>

\* core clear_history, as the holder of "&mut self" runs it
ClearHistoryCall(fails) ==
  /\ op' = "clear_history"
  /\ impl = "core" /\ clears < MaxClears
  /\ fails => storage /\ faults < MaxFaults
  /\ faults' = faults + (IF fails THEN 1 ELSE 0)
  /\ clears' = clears + 1
  /\ conversation_history' = <<>>
  /\ pushed' = <<>>
  /\ gigachat_history' = IF HasGigaChat THEN <<>> ELSE gigachat_history
  /\ db' = IF storage THEN ClearSessionHistory(db, fails) ELSE db
  /\ UNCHANGED <<impl, log_debug, config, storage, current_model, pc, user_input, request,
                 response, invoked, returned, turns>>

\* core clear_history called by the agent's one owner, between its other calls
CoreClearHistory(fails) == pc = "idle" /\ ClearHistoryCall(fails)

\* ClippyAgent::get_history
GetHistory ==
  [i \in 1..Len(conversation_history) |->
     <<conversation_history[i].role, conversation_history[i].content>>]

----------------------------------------------------------------------------
(* The older ClippyAgent of src/agent.rs *)

\* ClippyAgent::get_local_response
GetLocalResponse(user_input_) ==
  LET input_lower == ToLowercase(user_input_) IN
  IF Contains(input_lower, KwPrivet) \/ Contains(input_lower, KwZdravstvuj)
    THEN GreetingReply
  ELSE IF Contains(input_lower, KwPoka) \/ Contains(input_lower, KwDoSvidaniya)
    THEN FarewellReply
  ELSE IF Contains(input_lower, KwPomosch) \/ Contains(input_lower, KwPomogi)
    THEN HelpReply
  ELSE IF Contains(input_lower, KwVremya) \/ Contains(input_lower, KwKotoryjChas)
    THEN TimeReply
  ELSE DefaultReply

\* the texts get_openai_response returns for a failed call
OpenAIFailureText(kind) ==
  CASE kind = "Transport" -> OpenAITransportText
    [] kind = "NoChoice" -> OpenAINoChoiceText
    [] OTHER -> OpenAIDecodeText

\* get_response after the primary: the OpenAI request is sent, or the local rules answer
LegacyFallback(input, sofar) ==
  IF HasOpenAI
  THEN /\ conversation_history' = Append(conversation_history, Message("user", input))
       /\ pushed' = Append(pushed, Message("user", input))
       /\ request' = conversation_history'
       /\ invoked' = sofar
       /\ pc' = "openai"
       /\ returned' = <<>>
  ELSE /\ returned' = GetLocalResponse(input)
       /\ invoked' = Append(sofar, Outcome("Local", TRUE, GetLocalResponse(input)))
       /\ pc' = "idle"
       /\ UNCHANGED <<conversation_history, pushed, request>>

\* older get_response, from the call to the first await
LegacyGetResponse(input) ==
  /\ op' = "get_response"
  /\ impl = "legacy" /\ pc = "idle"
  /\ turns' = turns + (IF IsEmptyInput(input) THEN 0 ELSE 1)
  /\ user_input' = input
  /\ IF IsEmptyInput(input)
     THEN /\ returned' = Prompt
          /\ invoked' = <<>>
          /\ UNCHANGED <<pc, gigachat_history, request, conversation_history, pushed>>
     ELSE IF HasGigaChat
     THEN /\ gigachat_history' = GigaChatPushUser(gigachat_history, input)
          /\ request' = gigachat_history'
          /\ pc' = "gigachat"
          /\ invoked' = <<>>
          /\ returned' = <<>>
          /\ UNCHANGED <<conversation_history, pushed>>
     ELSE /\ LegacyFallback(input, <<>>)
          /\ UNCHANGED gigachat_history
  /\ UNCHANGED <<impl, log_debug, config, storage, current_model, db, response, clears, faults>>

\* the primary replies: both messages are pushed, the history trimmed
LegacyGigaChatOk(reply) ==
  /\ impl = "legacy" /\ pc = "gigachat"
  /\ gigachat_history' = GigaChatPushAssistant(gigachat_history, reply)
  /\ conversation_history' =
       Trimmed(Append(Append(conversation_history, Message("user", user_input)),
                      Message("assistant", reply)))
  /\ pushed' = Append(Append(pushed, Message("user", user_input)),
                      Message("assistant", reply))
  /\ invoked' = Append(invoked, Outcome("GigaChat", TRUE, reply))
  /\ returned' = reply
  /\ pc' = "idle"
  /\ UNCHANGED <<op, impl, log_debug, config, storage, current_model, db, user_input, request,
                 response, turns, clears, faults>>

\* the primary fails: fall back
LegacyGigaChatErr(kind) ==
  /\ impl = "legacy" /\ pc = "gigachat"
  /\ LegacyFallback(user_input, Append(invoked, Outcome("GigaChat", FALSE, <<>>)))
  /\ UNCHANGED <<op, impl, log_debug, config, storage, gigachat_history, current_model, db,
                 user_input, response, turns, clears, faults>>

\* get_openai_response: a reply with a first choice
LegacyOpenAIOk(reply) ==
  /\ impl = "legacy" /\ pc = "openai"
  /\ conversation_history' =
       Trimmed(Append(conversation_history, Message("assistant", reply)))
  /\ pushed' = Append(pushed, Message("assistant", reply))
  /\ invoked' = Append(invoked, Outcome("OpenAI", TRUE, reply))
  /\ returned' = reply
  /\ pc' = "idle"
  /\ UNCHANGED <<op, impl, log_debug, config, storage, gigachat_history, current_model, db,
                 user_input, request, response, turns, clears, faults>>

\* get_openai_response: the request fails, the body does not decode, or no choice
LegacyOpenAIErr(kind) ==
  /\ impl = "legacy" /\ pc = "openai"
  /\ kind \in {"Transport", "Decode", "NoChoice"}
  /\ invoked' = Append(invoked, Outcome("OpenAI", FALSE, OpenAIFailureText(kind)))
  /\ returned' = OpenAIFailureText(kind)
  /\ pc' = "idle"
  /\ UNCHANGED <<op, impl, log_debug, config, storage, conversation_history, gigachat_history,
                 current_model, db, user_input, request, response, pushed, turns,
                 clears, faults>>

\* older clear_history
LegacyClearHistory ==
  /\ op' = "clear_history"
  /\ impl = "legacy" /\ pc = "idle" /\ clears < MaxClears
  /\ clears' = clears + 1
  /\ conversation_history' = <<>>
  /\ pushed' = <<>>
  /\ gigachat_history' = IF HasGigaChat THEN <<>> ELSE gigachat_history
  /\ UNCHANGED <<impl, log_debug, config, storage, current_model, db, pc, user_input, request,
                 response, invoked, returned, turns, faults>>

----------------------------------------------------------------------------
(* The gui: ClippyApp of src/gui.rs *)

VARIABLES
  messages,                \* ClippyApp.messages: the transcript, (sender, text) pairs
  input_text,              \* ClippyApp.input_text
  status,                  \* ClippyApp.status
  is_thinking,             \* ClippyApp.is_thinking
  chan,                    \* the response channel: replies sent and not yet received
  tasks,                   \* the background tasks spawned and not yet finished
  lock_holder,             \* the task holding the agent mutex, 0 when it is free
  lock_waiters,            \* the tasks waiting for the agent mutex, in arrival order
  greeting_shown,          \* ClippyApp.greeting_shown
  cloud_visible,           \* ClippyApp.cloud_visible
  show_clear_confirmation, \* ClippyApp.show_clear_confirmation
  speaks,                  \* the texts a speak task was spawned for, in order
  ui_pc,                   \* where update() is: "receive" (its top), "draw", "send_message"
  spawned                  \* background tasks on the agent spawned so far

guiVars == <<messages, input_text, status, is_thinking, chan, tasks, lock_holder,
             lock_waiters, greeting_shown, cloud_visible, show_clear_confirmation,
             speaks, ui_pc, spawned>>

\* submissions accepted by send_message per behaviour of the gui specification
MaxSubmits == 1

StatusReady == "Gotov k rabote"
StatusThinking == "Dumayu..."
\* the greeting update() shows three seconds after the start
Greeting == <<"Privet soobschestvu gigachat">>

\* the texts the user types into the input field
UiInputs == {<<>>, Blank3, Hello}

\* ClippyApp::new
InitGui ==
  /\ messages = <<>>
  /\ input_text = <<>>
  /\ status = StatusReady
  /\ is_thinking = FALSE
  /\ chan = <<>>
  /\ tasks = {}
  /\ lock_holder = 0
  /\ lock_waiters = <<>>
  /\ greeting_shown = FALSE
  /\ cloud_visible = TRUE
  /\ show_clear_confirmation = FALSE
  /\ speaks = <<>>
  /\ ui_pc = "receive"
  /\ spawned = 0

Task(id, kind, input, st) == [id |-> id, kind |-> kind, input |-> input, st |-> st]

\* a guard of send_message that lets a submission through while a reply is awaited
SendIgnoredBlankOnly == Trim(input_text) = <<>>

\* a guard of send_message that lets blank input through
SendIgnoredThinkingOnly == is_thinking

\* the guard of send_message: "input_text.trim().is_empty() || is_thinking"
SendIgnored == Trim(input_text) = <<>> \/ is_thinking

\* the submissions send_message has accepted so far
Submitted ==
  turns + Cardinality({t \in tasks : t.kind = "get_response" /\ t.st # "running"})

\* ClippyApp::send_message
SendMessage ==
  /\ ui_pc = "send_message"
  /\ IF SendIgnored
     THEN UNCHANGED <<messages, input_text, status, is_thinking, tasks, spawned>>
     ELSE /\ input_text' = <<>>
          /\ messages' = Append(messages, <<"user", input_text>>)
          /\ status' = StatusThinking
          /\ is_thinking' = TRUE
          /\ spawned' = spawned + 1
          /\ tasks' = tasks \cup
                        {Task(spawned + 1, "get_response", input_text, "spawned")}
  /\ ui_pc' = "receive"
  /\ UNCHANGED <<chan, lock_holder, lock_waiters, greeting_shown, cloud_visible,
                 show_clear_confirmation, speaks>>
  /\ UNCHANGED agentVars

\* ClippyApp::clear_agent_history
ClearAgentHistory ==
  /\ spawned' = spawned + 1
  /\ tasks' = tasks \cup {Task(spawned + 1, "clear_history", <<>>, "spawned")}
  /\ messages' = <<>>
  /\ show_clear_confirmation' = FALSE

\* a receive loop that takes the replies and shows none
ReceivedNothing(replies) == <<>>

\* the transcript entries of the receive loop, one per reply
Received(replies) == [i \in 1..Len(replies) |-> <<"clippy", replies[i]>>]

\* update(): the greeting once three seconds have passed, then the receive loop
UpdateReceive(elapsed3s) ==
  LET greet == ~greeting_shown /\ elapsed3s
      greeted == IF greet THEN <<Greeting>> ELSE <<>>
  IN
  /\ ui_pc = "receive"
  /\ greeting_shown' = (greeting_shown \/ greet)
  /\ messages' = messages \o Received(greeted) \o Received(chan)
  /\ speaks' = speaks \o greeted \o chan
  /\ status' = IF chan # <<>> THEN StatusReady ELSE status
  /\ is_thinking' = IF chan # <<>> THEN FALSE ELSE is_thinking
  /\ chan' = <<>>
  /\ ui_pc' = "draw"
  /\ UNCHANGED <<input_text, tasks, lock_holder, lock_waiters, cloud_visible,
                 show_clear_confirmation, spawned>>
  /\ UNCHANGED agentVars

\* a bubble branch entered whatever the transcript ends with
BubbleShownAlways == TRUE

\* the bubble is drawn: the image is there and the last message is clippy's
BubbleShown ==
  messages # <<>> /\ messages[Len(messages)][1] = "clippy"

\* update(): a frame without a user event
UpdateNoEvent ==
  /\ ui_pc = "draw"
  /\ ui_pc' = "receive"
  /\ UNCHANGED <<messages, input_text, status, is_thinking, chan, tasks, lock_holder,
                 lock_waiters, greeting_shown, cloud_visible, show_clear_confirmation,
                 speaks, spawned>>
  /\ UNCHANGED agentVars

\* update(): the image is double-clicked
UpdateDoubleClick ==
  /\ ui_pc = "draw"
  /\ cloud_visible' = TRUE
  /\ ui_pc' = "receive"
  /\ UNCHANGED <<messages, input_text, status, is_thinking, chan, tasks, lock_holder,
                 lock_waiters, greeting_shown, show_clear_confirmation, speaks,
                 spawned>>
  /\ UNCHANGED agentVars

\* draw_close_button: the close button is clicked
UpdateClickClose ==
  /\ ui_pc = "draw" /\ BubbleShown /\ cloud_visible
  /\ cloud_visible' = FALSE
  /\ ui_pc' = "receive"
  /\ UNCHANGED <<messages, input_text, status, is_thinking, chan, tasks, lock_holder,
                 lock_waiters, greeting_shown, show_clear_confirmation, speaks,
                 spawned>>
  /\ UNCHANGED agentVars

\* draw_close_button: the clear button is clicked
UpdateClickClear ==
  /\ ui_pc = "draw" /\ BubbleShown /\ cloud_visible
  /\ show_clear_confirmation' = ~show_clear_confirmation
  /\ ui_pc' = "receive"
  /\ UNCHANGED <<messages, input_text, status, is_thinking, chan, tasks, lock_holder,
                 lock_waiters, greeting_shown, cloud_visible, speaks, spawned>>
  /\ UNCHANGED agentVars

\* draw_close_button: "Да" of the confirmation dialog is clicked
UpdateClickYes ==
  /\ ui_pc = "draw" /\ BubbleShown /\ cloud_visible /\ show_clear_confirmation
  /\ clears + Cardinality({t \in tasks : t.kind = "clear_history"}) < MaxClears
  /\ ClearAgentHistory
  /\ ui_pc' = "receive"
  /\ UNCHANGED <<input_text, status, is_thinking, chan, lock_holder, lock_waiters,
                 greeting_shown, cloud_visible, speaks>>
  /\ UNCHANGED agentVars

\* draw_close_button: "Нет" of the confirmation dialog is clicked
UpdateClickNo ==
  /\ ui_pc = "draw" /\ BubbleShown /\ cloud_visible /\ show_clear_confirmation
  /\ show_clear_confirmation' = FALSE
  /\ ui_pc' = "receive"
  /\ UNCHANGED <<messages, input_text, status, is_thinking, chan, tasks, lock_holder,
                 lock_waiters, greeting_shown, cloud_visible, speaks, spawned>>
  /\ UNCHANGED agentVars

\* draw_show_button: the show button is clicked
UpdateClickShow ==
  /\ ui_pc = "draw" /\ BubbleShown /\ ~cloud_visible
  /\ cloud_visible' = TRUE
  /\ ui_pc' = "receive"
  /\ UNCHANGED <<messages, input_text, status, is_thinking, chan, tasks, lock_holder,
                 lock_waiters, greeting_shown, show_clear_confirmation, speaks,
                 spawned>>
  /\ UNCHANGED agentVars

\* draw_input_interface: the user edits the input field
UpdateEditInput(text) ==
  /\ ui_pc = "draw" /\ cloud_visible
  /\ input_text' = text
  /\ ui_pc' = "receive"
  /\ UNCHANGED <<messages, status, is_thinking, chan, tasks, lock_holder, lock_waiters,
                 greeting_shown, cloud_visible, show_clear_confirmation, speaks,
                 spawned>>
  /\ UNCHANGED agentVars

\* draw_input_interface: the send button is clicked or Enter is pressed
UpdateSubmit ==
  /\ ui_pc = "draw" /\ cloud_visible
  /\ is_thinking \/ Trim(input_text) = <<>> \/ Submitted < MaxSubmits
  /\ ui_pc' = "send_message"
  /\ UNCHANGED <<messages, input_text, status, is_thinking, chan, tasks, lock_holder,
                 lock_waiters, greeting_shown, cloud_visible, show_clear_confirmation,
                 speaks, spawned>>
  /\ UNCHANGED agentVars

\* a mutex that every task may take at any time
MayLockAlways(t) == TRUE

\* a task may take the mutex: it is free at the task's first poll, or was handed over
MayLock(t) ==
  \/ t.st = "spawned" /\ lock_holder = 0
  \/ t.st = "waiting" /\ lock_holder = t.id

\* the mutex after its holder releases it: handed to the first waiter
Released == IF lock_waiters = <<>> THEN 0 ELSE Head(lock_waiters)

\* the task of send_message: "agent.lock().await" finds the mutex taken
TaskWait(t) ==
  /\ t \in tasks /\ t.st = "spawned" /\ lock_holder # 0
  /\ tasks' = (tasks \ {t}) \cup {Task(t.id, t.kind, t.input, "waiting")}
  /\ lock_waiters' = Append(lock_waiters, t.id)
  /\ UNCHANGED <<messages, input_text, status, is_thinking, chan, lock_holder,
                 greeting_shown, cloud_visible, show_clear_confirmation, speaks, ui_pc,
                 spawned>>
  /\ UNCHANGED agentVars

\* the task of send_message: the mutex is taken and get_response runs to its await
TaskGetResponse(t) ==
  /\ t \in tasks /\ t.kind = "get_response" /\ MayLock(t)
  /\ CoreGetResponse(t.input)
  /\ lock_holder' = t.id
  /\ lock_waiters' = IF t.st = "waiting" THEN Tail(lock_waiters) ELSE lock_waiters
  /\ tasks' = (tasks \ {t}) \cup {Task(t.id, t.kind, t.input, "running")}
  /\ UNCHANGED <<messages, input_text, status, is_thinking, chan, greeting_shown,
                 cloud_visible, show_clear_confirmation, speaks, ui_pc, spawned>>

\* the running get_response call: the primary replies
TaskGigaChatOk(reply) ==
  /\ CoreGigaChatOk(reply)
  /\ UNCHANGED guiVars

\* the running get_response call: the primary fails
TaskGigaChatErr(kind) ==
  /\ CoreGigaChatErr(kind)
  /\ UNCHANGED guiVars

\* the task of send_message: get_response returns, the reply is sent, the mutex released
TaskSend(t, fail_user, fail_assistant) ==
  /\ t \in tasks /\ t.kind = "get_response" /\ t.st = "running"
  /\ CoreRecord(fail_user, fail_assistant)
  /\ chan' = Append(chan, response)
  /\ lock_holder' = Released
  /\ lock_waiters' = IF lock_waiters = <<>> THEN <<>> ELSE lock_waiters
  /\ tasks' = tasks \ {t}
  /\ UNCHANGED <<messages, input_text, status, is_thinking, greeting_shown,
                 cloud_visible, show_clear_confirmation, speaks, ui_pc, spawned>>

\* the task of send_message: get_response panics in save_message; the task ends,
\* its guard is dropped and the mutex released, and nothing is sent
TaskPanics(t, fail_user) ==
  /\ t \in tasks /\ t.kind = "get_response" /\ t.st = "running"
  /\ RecordPanic(fail_user, "idle")
  /\ lock_holder' = Released
  /\ lock_waiters' = IF lock_waiters = <<>> THEN <<>> ELSE lock_waiters
  /\ tasks' = tasks \ {t}
  /\ UNCHANGED <<messages, input_text, status, is_thinking, chan, greeting_shown,
                 cloud_visible, show_clear_confirmation, speaks, ui_pc, spawned>>

\* the task of clear_agent_history: lock, clear_history, unlock
TaskClearHistory(t, fails) ==
  /\ t \in tasks /\ t.kind = "clear_history" /\ MayLock(t)
  /\ ClearHistoryCall(fails)
  /\ lock_waiters' = IF t.st = "waiting" THEN Tail(lock_waiters) ELSE lock_waiters
  /\ lock_holder' = IF lock_waiters' = <<>> THEN 0 ELSE Head(lock_waiters')
  /\ tasks' = tasks \ {t}
  /\ UNCHANGED <<messages, input_text, status, is_thinking, chan, greeting_shown,
                 cloud_visible, show_clear_confirmation, speaks, ui_pc, spawned>>

----------------------------------------------------------------------------
(* The speech bubble's placement: show_talk_cloud_side of src/ui/chat_bubble.rs *)
(* Lengths are whole pixels; the inputs are even, so the halves are exact.     *)

VARIABLES
  layout_in,    \* the arguments of the call and the screen rectangle
  layout_pc,    \* where the call is: "call", "measure", "position", "shift",
                \* "final", "done", "panicked"
  place_left,   \* "place_left"
  wrap_w,       \* "wrap_w"
  vis_size,     \* "vis_size"
  cloud_min     \* "cloud_min"

layoutVars == <<layout_in, layout_pc, place_left, wrap_w, vis_size, cloud_min>>

\* the least width the text is wrapped at
MinWrapWidth == 120
\* the width of the branch that forces the right side
ForcedWrapWidth == 100
\* the padding of the panel around the text
Pad == 12
\* the distance kept from the screen's edge when the panel is moved
EdgeMargin == 5

Rect(min_x, min_y, max_x, max_y) ==
  [min_x |-> min_x, min_y |-> min_y, max_x |-> max_x, max_y |-> max_y]

\* a test of rectangles that never finds them intersecting
IntersectsNever(a, b) == FALSE

\* egui::Rect::intersects: the edges count
Intersects(a, b) ==
  /\ a.min_x <= b.max_x /\ b.min_x <= a.max_x
  /\ a.min_y <= b.max_y /\ b.min_y <= a.max_y

Max(a, b) == IF a >= b THEN a ELSE b
Min(a, b) == IF a < b THEN a ELSE b

\* f32::clamp, defined when lo <= hi
Clamp(x, lo, hi) == IF x < lo THEN lo ELSE IF x > hi THEN hi ELSE x

\* "wrap_w_target": the width of max_chars_per_line letters W, of one at least
WrapWTarget(in) == Max(in.max_chars_per_line, 1) * in.glyph_width

\* the space on each side of the image
SpaceLeft(in) == Max(in.image_rect.min_x - in.screen.min_x - in.gap, 0)
SpaceRight(in) == Max(in.screen.max_x - in.image_rect.max_x - in.gap, 0)

\* "min_required_space"
MinRequiredSpace(in) == MinWrapWidth + in.gap

\* the first choice of the side
ChoosesLeft(in) ==
  LET space_left == SpaceLeft(in)
      space_right == SpaceRight(in)
  IN IF in.prefer_left
     THEN /\ space_left >= MinRequiredSpace(in)
          /\ (space_left >= space_right \/ space_right < MinRequiredSpace(in))
     ELSE space_left >= MinRequiredSpace(in) /\ space_left > space_right

\* f32::clamp panics when its lower limit is above its upper limit
ClampPanics(in) == MinWrapWidth > WrapWTarget(in)

\* "wrap_w" on a side
WrapWidth(in, left) ==
  Clamp((IF left THEN SpaceLeft(in) ELSE SpaceRight(in)) - in.gap,
        MinWrapWidth, WrapWTarget(in))

\* show_talk_cloud_side: the side and the wrap width, with the two retries
ChooseSide ==
  LET in == layout_in
      left1 == ChoosesLeft(in)
      w1 == WrapWidth(in, left1)
      retry == w1 < MinWrapWidth
      left2 == IF retry THEN ~left1 ELSE left1
      w2 == IF retry THEN WrapWidth(in, left2) ELSE w1
      forced == w2 < MinWrapWidth
  IN
  /\ layout_pc = "call"
  /\ IF ClampPanics(in)
     THEN /\ layout_pc' = "panicked"
          /\ UNCHANGED <<place_left, wrap_w>>
     ELSE /\ layout_pc' = "measure"
          /\ place_left' = IF forced THEN FALSE ELSE left2
          /\ wrap_w' = IF forced
                       THEN Min(Max(SpaceRight(in) - in.gap, ForcedWrapWidth),
                                WrapWTarget(in))
                       ELSE w2
  /\ UNCHANGED <<layout_in, vis_size, cloud_min>>

\* show_talk_cloud_side: the text is laid out at the wrap width, "vis_size"
MeasureText ==
  /\ layout_pc = "measure"
  /\ vis_size' = [x |-> wrap_w + Pad * 2,
                  y |-> Min(layout_in.text_height + Pad * 2,
                            layout_in.max_height_px + Pad * 2)]
  /\ layout_pc' = "position"
  /\ UNCHANGED <<layout_in, place_left, wrap_w, cloud_min>>

\* "cloud_min.y" after the clip to the screen
ClippedY(screen, y0, height) ==
  LET y1 == IF y0 < screen.min_y THEN screen.min_y + EdgeMargin ELSE y0
  IN IF y1 + height > screen.max_y THEN screen.max_y - height - EdgeMargin ELSE y1

\* show_talk_cloud_side: the panel beside the image, centred on it, clipped to
\* the screen's height
PositionCloud ==
  LET image == layout_in.image_rect
      center_y == (image.min_y + image.max_y) \div 2
  IN
  /\ layout_pc = "position"
  /\ cloud_min' =
       [x |-> IF place_left THEN image.min_x - layout_in.gap - vis_size.x
                            ELSE image.max_x + layout_in.gap,
        y |-> ClippedY(layout_in.screen, center_y - vis_size.y \div 2, vis_size.y)]
  /\ layout_pc' = "shift"
  /\ UNCHANGED <<layout_in, place_left, wrap_w, vis_size>>

\* show_talk_cloud_side: the shifts that keep the panel off the image and on the
\* screen
ShiftCloud ==
  LET image == layout_in.image_rect
      screen == layout_in.screen
      gap == layout_in.gap
      beside_left == image.min_x - gap - vis_size.x
      beside_right == image.max_x + gap
      cloud_right == cloud_min.x + vis_size.x
      cloud_left == cloud_min.x
      moved(left, x) == /\ place_left' = left
                        /\ cloud_min' = [cloud_min EXCEPT !.x = x]
  IN
  /\ layout_pc = "shift"
  /\ IF place_left
     THEN LET x1 == IF cloud_right > image.min_x - gap THEN beside_left
                    ELSE cloud_min.x
          IN IF x1 < screen.min_x
             THEN IF cloud_right > image.min_x - gap
                  THEN moved(FALSE, beside_right)
                  ELSE moved(TRUE, screen.min_x + EdgeMargin)
             ELSE moved(TRUE, x1)
     ELSE LET x1 == IF cloud_left < image.max_x + gap THEN beside_right
                    ELSE cloud_min.x
              x2 == screen.max_x - vis_size.x - EdgeMargin
          IN IF x1 + vis_size.x > screen.max_x
             THEN IF x2 < image.max_x + gap
                  THEN moved(TRUE, beside_left)
                  ELSE moved(FALSE, x2)
             ELSE moved(FALSE, x1)
  /\ layout_pc' = "final"
  /\ UNCHANGED <<layout_in, wrap_w, vis_size>>

\* "cloud_rect_final": Rect::from_min_size(cloud_min, vis_size)
CloudRect ==
  Rect(cloud_min.x, cloud_min.y, cloud_min.x + vis_size.x, cloud_min.y + vis_size.y)

\* show_talk_cloud_side: the last test against the image moves the panel to the
\* other side
FinalCheck ==
  LET image == layout_in.image_rect
  IN
  /\ layout_pc = "final"
  /\ IF Intersects(CloudRect, image)
     THEN /\ cloud_min' = [cloud_min EXCEPT
                             !.x = IF place_left
                                   THEN image.max_x + layout_in.gap
                                   ELSE image.min_x - layout_in.gap - vis_size.x]
          /\ place_left' = ~place_left
     ELSE UNCHANGED <<cloud_min, place_left>>
  /\ layout_pc' = "done"
  /\ UNCHANGED <<layout_in, wrap_w, vis_size>>

\* the screens, images and arguments of the calls
ScreenWidths == {300, 400, 1024}
ScreenHeights == {100, 200, 768}
ImageLefts == {0, 100, 140, 170, 250, 700}
ImageTops == {0, 20, 24, 500}
ImageWidths == {50}
ImageHeights == {60}
Gaps == {0, 10, 20}
MaxCharsPerLine == {0, 10, 110}
\* the width of the letter W in the font of the call
GlyphWidths == {10, 15}
TextHeights == {20, 74, 300}
MaxHeights == {0, 120}

LayoutInputs ==
  {[screen |-> Rect(0, 0, sw, sh),
    image_rect |-> Rect(ix, iy, ix + iw, iy + ih),
    gap |-> gap, prefer_left |-> prefer_left, max_chars_per_line |-> chars,
    glyph_width |-> glyph,
    text_height |-> th, max_height_px |-> mh] :
     sw \in ScreenWidths, sh \in ScreenHeights, ix \in ImageLefts, iy \in ImageTops,
     iw \in ImageWidths, ih \in ImageHeights, gap \in Gaps, prefer_left \in BOOLEAN,
     chars \in MaxCharsPerLine, glyph \in GlyphWidths, th \in TextHeights,
     mh \in MaxHeights}

\* the image is drawn inside the window
ImageOnScreen(in) ==
  /\ in.image_rect.max_x <= in.screen.max_x
  /\ in.image_rect.max_y <= in.screen.max_y

\* the locals of a call that has not set them
NoLocals ==
  /\ place_left = FALSE
  /\ wrap_w = 0
  /\ vis_size = [x |-> 0, y |-> 0]
  /\ cloud_min = [x |-> 0, y |-> 0]

\* no call of show_talk_cloud_side
InitNoLayout ==
  /\ layout_in = [screen |-> Rect(0, 0, 400, 200), image_rect |-> Rect(0, 0, 50, 60),
                  gap |-> 20, prefer_left |-> TRUE, max_chars_per_line |-> 110,
                  glyph_width |-> 10,
                  text_height |-> 20, max_height_px |-> 120]
  /\ layout_pc = "idle"
  /\ NoLocals

\* show_talk_cloud_side is called
InitLayout ==
  /\ layout_in \in {in \in LayoutInputs : ImageOnScreen(in)}
  /\ layout_pc = "call"
  /\ NoLocals

----------------------------------------------------------------------------
(* The local responder called on its own *)

VARIABLES
  local_input,   \* the text LocalAI::get_response or get_local_response is given
  local_reply    \* what the call returned; <<>> before the call

localVars == <<local_input, local_reply>>

\* words of a text per behaviour of the local responder's specification
MaxWords == 2

\* char::to_uppercase, to write the texts of the calls
ToUpperChar(c) ==
  IF \E i \in 1..Len(LowerChars) : LowerChars[i] = c
  THEN UpperChars[CHOOSE i \in 1..Len(LowerChars) : LowerChars[i] = c]
  ELSE c

ToUppercase(s) == [i \in 1..Len(s) |-> ToUpperChar(s[i])]
Capitalized(s) == <<ToUpperChar(Head(s))>> \o Tail(s)

\* the words of the texts: the keywords, a word that holds one, a word that holds none
Words ==
  {KwPrivet, KwZdravstvuj, KwPoka, KwDoSvidaniya, KwPomosch, KwPomogi, KwVremya,
   KwKotoryjChas, <<"p", "o", "k", "a", "z", "h", "i">>, <<"c", "h", "t", "o">>}

\* the words as they are typed: small, in capitals, with a capital first
WordForms == UNION {{w, ToUppercase(w), Capitalized(w)} : w \in Words}

\* the texts of at most n words
RECURSIVE TextsOf(_)
TextsOf(n) ==
  IF n = 0 THEN {<<>>}
  ELSE LET shorter == TextsOf(n - 1)
       IN shorter \cup {IF t = <<>> THEN w ELSE t \o <<" ">> \o w :
                          t \in shorter, w \in WordForms}

LocalInputs == TextsOf(MaxWords)

\* no call of the local responder
InitNoLocal ==
  /\ local_input = <<>>
  /\ local_reply = <<>>

InitLocal ==
  /\ local_input \in LocalInputs
  /\ local_reply = <<>>

\* a call of LocalAI::get_response
CallLocalAI ==
  /\ impl = "core"
  /\ local_reply' = LocalAIGetResponse(local_input)
  /\ UNCHANGED local_input

\* a call of the older agent's get_local_response
CallGetLocalResponse ==
  /\ impl = "legacy"
  /\ local_reply' = GetLocalResponse(local_input)
  /\ UNCHANGED local_input

\* what the agent and the gui leave alone
----------------------------------------------------------------------------
(* The chat window: ClippyApp of src/ui/app.rs                               *)
(* animation_progress is counted in hundredths; the errors of the f32 sums    *)
(* are far below the distance of 0.9 and 1.05 from 1.  The file has no render *)
(* loop of its own: the show button is drawn while the window is hidden, as   *)
(* the loop of src/gui.rs draws its own; the other methods at any time.       *)

VARIABLES
  chat_visible,        \* ClippyApp.chat_visible
  animation_progress,  \* ClippyApp.animation_progress, in hundredths
  app_messages,        \* ClippyApp.messages
  app_input_text,      \* ClippyApp.input_text
  app_is_thinking,     \* ClippyApp.is_thinking
  app_spawned,         \* the tasks send_message has spawned
  widget_pending,      \* the widget channel holds an update
  widgets_loaded,      \* the widgets show the values of an update
  app_image_rect,      \* "image_rect" of the latest draw_chat_window
  chat_rect,           \* "chat_rect" of the latest draw_chat_window
  passes,              \* draw_chat_window calls since the window was shown
  app_op               \* the latest operation of the app

appVars == <<chat_visible, animation_progress, app_messages, app_input_text,
             app_is_thinking, app_spawned, widget_pending, widgets_loaded,
             app_image_rect, chat_rect, passes, app_op>>

\* the passes are counted up to this number
PassCap == 8

\* chat::CHAT_WINDOW_WIDTH, CHAT_WINDOW_HEIGHT, CHAT_PADDING
ChatWindowWidth == 350
ChatWindowHeight == 420
ChatPadding == 15

\* the step of the animation and its end, in hundredths
AnimationStep == 15
AnimationFull == 100

\* the screen of the chat window and the places of the image on it
AppScreen == Rect(0, 0, 1024, 768)
AppImageLefts == {0, 200, 400, 974}
AppImageTops == {0, 708}
AppImageRects ==
  {Rect(x, y, x + 50, y + 60) : x \in AppImageLefts, y \in AppImageTops}

\* an animation step without the ".min(1.0)"
AdvancedUncapped(progress) == progress + AnimationStep

\* "(self.animation_progress + 0.15).min(1.0)"
Advanced(progress) == Min(progress + AnimationStep, AnimationFull)

\* "chat_rect" of draw_chat_window
ChatRect(image_rect, screen_rect) ==
  LET chat_x == Max(image_rect.min_x - ChatWindowWidth - ChatPadding,
                    screen_rect.min_x + ChatPadding)
      center_y == (image_rect.min_y + image_rect.max_y) \div 2
      chat_y == Max(center_y - ChatWindowHeight \div 2, screen_rect.min_y + ChatPadding)
  IN  Rect(chat_x, chat_y, chat_x + ChatWindowWidth, chat_y + ChatWindowHeight)

\* ClippyApp::new
InitApp ==
  /\ chat_visible = FALSE
  /\ animation_progress = 0
  /\ app_messages = <<>>
  /\ app_input_text = <<>>
  /\ app_is_thinking = FALSE
  /\ app_spawned = 0
  /\ widget_pending = FALSE
  /\ widgets_loaded = FALSE
  /\ app_image_rect = Rect(0, 0, 0, 0)
  /\ chat_rect = Rect(0, 0, 0, 0)
  /\ passes = 0
  /\ app_op = "new"

\* the fields of the app as send_message reads and writes them
AppFields == [input_text |-> app_input_text, messages |-> app_messages,
              is_thinking |-> app_is_thinking, spawned |-> app_spawned]

\* ClippyApp::send_message of src/ui/app.rs on those fields
AppSendMessage(f) ==
  IF Trim(f.input_text) = <<>> \/ f.is_thinking
  THEN f
  ELSE [input_text |-> <<>>,
        messages |-> Append(f.messages, <<"user", f.input_text>>),
        is_thinking |-> TRUE,
        spawned |-> f.spawned + 1]

\* an Escape press that closes the window whether it is visible or not
EscapeClosesAlways(escape, visible) == escape

\* "key_pressed(Escape) && self.chat_visible"
EscapeCloses(escape, visible) == escape /\ visible

\* draw_show_button: a click shows the window and loads the widgets' data
DrawShowButton(clicked) ==
  /\ ~chat_visible
  /\ app_op' = IF clicked THEN "show_clicked" ELSE "show_button"
  /\ IF clicked
     THEN /\ chat_visible' = TRUE
          /\ animation_progress' = 0
          /\ passes' = 0
          /\ widget_pending' = TRUE
     ELSE UNCHANGED <<chat_visible, animation_progress, passes, widget_pending>>
  /\ UNCHANGED <<app_messages, app_input_text, app_is_thinking, app_spawned,
                 widgets_loaded, app_image_rect, chat_rect>>

\* draw_chat_window: the animation step, the rectangle, the send button, the
\* input field with what was typed in this pass, the Enter key
DrawChatWindow(image_rect, send_clicked, typed, enter_pressed) ==
  LET after_button == IF send_clicked /\ ~app_is_thinking
                      THEN AppSendMessage(AppFields) ELSE AppFields
      after_edit == [after_button EXCEPT !.input_text = typed]
      after_enter == IF enter_pressed THEN AppSendMessage(after_edit) ELSE after_edit
  IN
  /\ app_op' = "chat_window"
  /\ animation_progress' =
       IF chat_visible /\ animation_progress < AnimationFull
       THEN Advanced(animation_progress) ELSE animation_progress
  /\ passes' = IF chat_visible THEN Min(passes + 1, PassCap) ELSE passes
  /\ app_image_rect' = image_rect
  /\ chat_rect' = ChatRect(image_rect, AppScreen)
  /\ app_input_text' = after_enter.input_text
  /\ app_messages' = after_enter.messages
  /\ app_is_thinking' = after_enter.is_thinking
  /\ app_spawned' = after_enter.spawned
  /\ UNCHANGED <<chat_visible, widget_pending, widgets_loaded>>

\* check_close_chat
CheckCloseChat(escape) ==
  /\ app_op' = IF escape THEN "escape" ELSE "no_escape"
  /\ IF EscapeCloses(escape, chat_visible)
     THEN chat_visible' = FALSE /\ animation_progress' = AnimationFull
     ELSE UNCHANGED <<chat_visible, animation_progress>>
  /\ UNCHANGED <<app_messages, app_input_text, app_is_thinking, app_spawned,
                 widget_pending, widgets_loaded, app_image_rect, chat_rect, passes>>

\* process_widget_updates: the channel is drained into the widgets
ProcessWidgetUpdates ==
  /\ app_op' = "widget_updates"
  /\ widget_pending' = FALSE
  /\ widgets_loaded' = (widgets_loaded \/ widget_pending)
  /\ UNCHANGED <<chat_visible, animation_progress, app_messages, app_input_text,
                 app_is_thinking, app_spawned, app_image_rect, chat_rect, passes>>

----------------------------------------------------------------------------
(* The OpenAIClient of src/ai/openai.rs *)

VARIABLES
  openai_history,   \* OpenAIClient.conversation_history
  openai_pc,        \* "idle", or "request" while get_response awaits the reply
  openai_calls      \* get_response calls of the client so far

openaiVars == <<openai_history, openai_pc, openai_calls>>

\* OpenAIClient::new
InitOpenAI ==
  /\ openai_history = <<>>
  /\ openai_pc = "idle"
  /\ openai_calls = 0

\* OpenAIClient::get_response up to the request: the user message is pushed
OpenAIGetResponse(input) ==
  /\ openai_pc = "idle" /\ openai_calls < MaxLongTurns
  /\ openai_calls' = openai_calls + 1
  /\ openai_history' = Append(openai_history, Message("user", input))
  /\ openai_pc' = "request"

\* OpenAIClient::get_response: a reply with a first choice is pushed, the history trimmed
OpenAIOk(reply) ==
  /\ openai_pc = "request"
  /\ openai_history' = Trimmed(Append(openai_history, Message("assistant", reply)))
  /\ openai_pc' = "idle"
  /\ UNCHANGED openai_calls

\* OpenAIClient::get_response: the request fails, the status is no success, the
\* body does not decode, or there is no choice
OpenAIErr(kind) ==
  /\ openai_pc = "request"
  /\ openai_pc' = "idle"
  /\ UNCHANGED <<openai_history, openai_calls>>

\* OpenAIClient::clear_history
OpenAIClearHistory ==
  /\ openai_pc = "idle" /\ openai_history # <<>>
  /\ openai_history' = <<>>
  /\ UNCHANGED <<openai_pc, openai_calls>>

besideAgentVars == <<guiVars, layoutVars, localVars, appVars, openaiVars>>
besideGuiVars == <<layoutVars, localVars, appVars, openaiVars>>
besideLayoutVars == <<agentVars, guiVars, localVars, appVars, openaiVars>>
besideLocalVars == <<agentVars, guiVars, layoutVars, appVars, openaiVars>>
besideAppVars == <<agentVars, guiVars, layoutVars, localVars, openaiVars>>
besideOpenAIVars == <<guiVars, layoutVars, localVars, appVars>>

----------------------------------------------------------------------------
(* The agent called by a sequential caller *)

vars == <<agentVars, guiVars, layoutVars, localVars, appVars, openaiVars>>

Init == InitAgent /\ InitGui /\ InitNoLayout /\ InitNoLocal /\ InitApp /\ InitOpenAI

\* a call within the limit of turns; calls with blank input are not counted
WithinTurns(input, limit) == Trim(input) = <<>> \/ turns < limit

Next ==
  \/ (\E input \in Inputs : WithinTurns(input, MaxTurns) /\ CoreGetResponse(input))
       /\ UNCHANGED besideAgentVars
  \/ (\E reply \in GigaReplies : CoreGigaChatOk(reply)) /\ UNCHANGED besideAgentVars
  \/ (\E kind \in ErrorKinds : CoreGigaChatErr(kind)) /\ UNCHANGED besideAgentVars
  \/ (\E fu, fa \in BOOLEAN : CoreRecord(fu, fa)) /\ UNCHANGED besideAgentVars
  \/ (\E fu \in BOOLEAN : CoreRecordPanics(fu)) /\ UNCHANGED besideAgentVars
  \/ (\E fails \in BOOLEAN : CoreClearHistory(fails)) /\ UNCHANGED besideAgentVars
  \/ (\E input \in Inputs : WithinTurns(input, MaxTurns) /\ LegacyGetResponse(input))
       /\ UNCHANGED besideAgentVars
  \/ (\E reply \in GigaReplies : LegacyGigaChatOk(reply)) /\ UNCHANGED besideAgentVars
  \/ (\E kind \in ErrorKinds : LegacyGigaChatErr(kind)) /\ UNCHANGED besideAgentVars
  \/ (\E reply \in OpenAIReplies : LegacyOpenAIOk(reply)) /\ UNCHANGED besideAgentVars
  \/ (\E kind \in ErrorKinds : LegacyOpenAIErr(kind)) /\ UNCHANGED besideAgentVars
  \/ LegacyClearHistory /\ UNCHANGED besideAgentVars

Spec == Init /\ [][Next]_vars

----------------------------------------------------------------------------
(* The core agent over many turns, its store not failing *)

InitHistory == Init /\ impl = "core"

NextHistory ==
  \/ (\E input \in Inputs : WithinTurns(input, MaxLongTurns) /\ CoreGetResponse(input))
       /\ UNCHANGED besideAgentVars
  \/ (\E reply \in GigaReplies : CoreGigaChatOk(reply)) /\ UNCHANGED besideAgentVars
  \/ (\E kind \in ErrorKinds : CoreGigaChatErr(kind)) /\ UNCHANGED besideAgentVars
  \/ CoreRecord(FALSE, FALSE) /\ UNCHANGED besideAgentVars
  \/ CoreRecordPanics(FALSE) /\ UNCHANGED besideAgentVars
  \/ CoreClearHistory(FALSE) /\ UNCHANGED besideAgentVars

SpecHistory == InitHistory /\ [][NextHistory]_vars

----------------------------------------------------------------------------
(* The gui with its background tasks *)

\* (to ClippyAgent::new an empty key is no key, and an OpenAI key that is not to
\* be used is none: the gui starts from the configurations that differ)
InitGuiSpec ==
  /\ InitAgent /\ impl = "core" /\ config.gigachat_api_key # "empty"
  /\ config.use_openai = config.openai_api_key
  /\ InitGui /\ InitNoLayout /\ InitNoLocal /\ InitApp /\ InitOpenAI

NextGui ==
  \/ (\E elapsed3s \in BOOLEAN : UpdateReceive(elapsed3s)) /\ UNCHANGED besideGuiVars
  \/ UpdateNoEvent /\ UNCHANGED besideGuiVars
  \/ UpdateDoubleClick /\ UNCHANGED besideGuiVars
  \/ UpdateClickClose /\ UNCHANGED besideGuiVars
  \/ UpdateClickClear /\ UNCHANGED besideGuiVars
  \/ UpdateClickYes /\ UNCHANGED besideGuiVars
  \/ UpdateClickNo /\ UNCHANGED besideGuiVars
  \/ UpdateClickShow /\ UNCHANGED besideGuiVars
  \/ (\E text \in UiInputs : UpdateEditInput(text)) /\ UNCHANGED besideGuiVars
  \/ UpdateSubmit /\ UNCHANGED besideGuiVars
  \/ SendMessage /\ UNCHANGED besideGuiVars
  \/ (\E t \in tasks : TaskWait(t)) /\ UNCHANGED besideGuiVars
  \/ (\E t \in tasks : TaskGetResponse(t)) /\ UNCHANGED besideGuiVars
  \/ (\E reply \in GigaReplies : TaskGigaChatOk(reply)) /\ UNCHANGED besideGuiVars
  \/ (\E kind \in ErrorKinds : TaskGigaChatErr(kind)) /\ UNCHANGED besideGuiVars
  \/ (\E t \in tasks : \E fu, fa \in BOOLEAN : TaskSend(t, fu, fa)) /\ UNCHANGED besideGuiVars
  \/ (\E t \in tasks : \E fu \in BOOLEAN : TaskPanics(t, fu)) /\ UNCHANGED besideGuiVars
  \/ (\E t \in tasks : \E fails \in BOOLEAN : TaskClearHistory(t, fails)) /\ UNCHANGED besideGuiVars

SpecGui == InitGuiSpec /\ [][NextGui]_vars

\* a pass of the render loop: egui repaints after every request_repaint
RenderStep ==
  /\ \/ \E elapsed3s \in BOOLEAN : UpdateReceive(elapsed3s)
     \/ UpdateNoEvent
     \/ SendMessage
  /\ UNCHANGED besideGuiVars

\* a step of a spawned task or of the backend it awaits: the runtime polls every
\* task that can go on, and a request ends with a reply or an error
TaskStep ==
  /\ \/ \E t \in tasks : TaskWait(t)
     \/ \E t \in tasks : TaskGetResponse(t)
     \/ \E reply \in GigaReplies : TaskGigaChatOk(reply)
     \/ \E kind \in ErrorKinds : TaskGigaChatErr(kind)
     \/ \E t \in tasks : \E fu, fa \in BOOLEAN : TaskSend(t, fu, fa)
     \/ \E t \in tasks : \E fu \in BOOLEAN : TaskPanics(t, fu)
     \/ \E t \in tasks : \E fails \in BOOLEAN : TaskClearHistory(t, fails)
  /\ UNCHANGED besideGuiVars

\* the gui in fair executions
SpecGuiFair == SpecGui /\ WF_vars(RenderStep) /\ WF_vars(TaskStep)

----------------------------------------------------------------------------
(* The calls of show_talk_cloud_side *)

InitLayoutSpec ==
  /\ InitAgent /\ impl = "core" /\ config = [gigachat_api_key |-> "none", use_openai |-> FALSE,
                 openai_api_key |-> FALSE]
  /\ storage = FALSE
  /\ InitGui /\ InitLayout /\ InitNoLocal /\ InitApp /\ InitOpenAI

NextLayout ==
  \/ ChooseSide /\ UNCHANGED besideLayoutVars
  \/ MeasureText /\ UNCHANGED besideLayoutVars
  \/ PositionCloud /\ UNCHANGED besideLayoutVars
  \/ ShiftCloud /\ UNCHANGED besideLayoutVars
  \/ FinalCheck /\ UNCHANGED besideLayoutVars

SpecLayout == InitLayoutSpec /\ [][NextLayout]_vars

----------------------------------------------------------------------------
(* The calls of the local responder *)

InitLocalSpec ==
  /\ InitAgent /\ storage = FALSE
  /\ config = [gigachat_api_key |-> "none", use_openai |-> FALSE,
               openai_api_key |-> FALSE]
  /\ InitGui /\ InitNoLayout /\ InitLocal /\ InitApp /\ InitOpenAI

NextLocal ==
  \/ CallLocalAI /\ UNCHANGED besideLocalVars
  \/ CallGetLocalResponse /\ UNCHANGED besideLocalVars

SpecLocal == InitLocalSpec /\ [][NextLocal]_vars

----------------------------------------------------------------------------
(* The calls of the chat window's methods *)

InitAppSpec ==
  /\ InitAgent /\ impl = "core" /\ storage = FALSE
  /\ config = [gigachat_api_key |-> "none", use_openai |-> FALSE,
               openai_api_key |-> FALSE]
  /\ InitGui /\ InitNoLayout /\ InitNoLocal /\ InitApp /\ InitOpenAI

NextApp ==
  \/ (\E clicked \in BOOLEAN : DrawShowButton(clicked)) /\ UNCHANGED besideAppVars
  \/ (\E image_rect \in AppImageRects : \E send_clicked, enter_pressed \in BOOLEAN :
        \E typed \in UiInputs :
          DrawChatWindow(image_rect, send_clicked, typed, enter_pressed))
       /\ UNCHANGED besideAppVars
  \/ (\E escape \in BOOLEAN : CheckCloseChat(escape)) /\ UNCHANGED besideAppVars
  \/ ProcessWidgetUpdates /\ UNCHANGED besideAppVars

SpecApp == InitAppSpec /\ [][NextApp]_vars

----------------------------------------------------------------------------
(* The secondary path: the older agent with OpenAI alone, and the OpenAIClient *)

InitOpenAISpec ==
  /\ InitAgent /\ impl = "legacy"
  /\ config = [gigachat_api_key |-> "none", use_openai |-> TRUE,
               openai_api_key |-> TRUE]
  /\ InitGui /\ InitNoLayout /\ InitNoLocal /\ InitApp /\ InitOpenAI

\* the two objects share nothing: a behaviour calls the one or the other
AgentOnly == openai_calls = 0 /\ openai_history = <<>>
ClientOnly == op = "none"

NextOpenAI ==
  \/ (\E input \in Inputs : WithinTurns(input, MaxLongTurns) /\ LegacyGetResponse(input))
       /\ AgentOnly /\ UNCHANGED besideAgentVars
  \/ (\E reply \in OpenAIReplies : LegacyOpenAIOk(reply)) /\ UNCHANGED besideAgentVars
  \/ (\E kind \in ErrorKinds : LegacyOpenAIErr(kind)) /\ UNCHANGED besideAgentVars
  \/ LegacyClearHistory /\ AgentOnly /\ UNCHANGED besideAgentVars
  \/ OpenAIGetResponse(Hello) /\ ClientOnly /\ UNCHANGED <<agentVars, besideOpenAIVars>>
  \/ (\E reply \in OpenAIReplies : OpenAIOk(reply)) /\ UNCHANGED <<agentVars, besideOpenAIVars>>
  \/ (\E kind \in ErrorKinds : OpenAIErr(kind)) /\ UNCHANGED <<agentVars, besideOpenAIVars>>
  \/ OpenAIClearHistory /\ UNCHANGED <<agentVars, besideOpenAIVars>>

SpecOpenAI == InitOpenAISpec /\ [][NextOpenAI]_vars

----------------------------------------------------------------------------
(* Properties of the agent *)

Remote == {"GigaChat", "OpenAI"}

\* the priority of a backend: primary, secondary, local rules
Rank(backend) ==
  CASE backend = "GigaChat" -> 1 [] backend = "OpenAI" -> 2 [] OTHER -> 3

Configured(backend) ==
  CASE backend = "GigaChat" -> HasGigaChat [] backend = "OpenAI" -> HasOpenAI [] OTHER -> TRUE

\* a get_response call with a non-empty input has returned
TurnReturned == pc = "idle" /\ op = "get_response" /\ Trim(user_input) # <<>>

\* the last n elements of a sequence
LastN(q, n) == SubSeq(q, Len(q) - n + 1, Len(q))


\* C1: within one turn only configured backends are invoked, in the order
\* GigaChat, OpenAI, local rules, each at most once, a later one only after every
\* earlier configured one has failed, and the text returned is the reply of the
\* first backend that succeeds.
C1_FallbackOrder ==
  /\ \A i \in 1..Len(invoked) : Configured(invoked[i].backend)
  /\ \A i, j \in 1..Len(invoked) :
       i < j => Rank(invoked[i].backend) < Rank(invoked[j].backend)
  /\ \A i \in 1..Len(invoked) : \A b \in Remote :
       (Configured(b) /\ Rank(b) < Rank(invoked[i].backend))
         => \E j \in 1..(i - 1) : invoked[j].backend = b /\ ~invoked[j].ok
  /\ TurnReturned =>
       \E i \in 1..Len(invoked) :
         /\ invoked[i].ok
         /\ \A j \in 1..(i - 1) : ~invoked[j].ok
         /\ returned = invoked[i].text

\* C2: when every configured remote backend fails to produce a reply in a turn,
\* get_response returns the local-rules reply for the input, and never the failure
\* text or placeholder of a remote backend.
C2_RemoteFailureDegrades ==
  TurnReturned =>
    /\ (\A i \in 1..Len(invoked) : invoked[i].backend \in Remote => ~invoked[i].ok)
         => returned = LocalAIGetResponse(user_input)
    /\ \A i \in 1..Len(invoked) :
         (invoked[i].backend \in Remote /\ ~invoked[i].ok) => returned # invoked[i].text

\* C3: between calls the history of the core agent has at most 10 entries and is
\* the last min(k, 10) of the k messages pushed since the latest clear, in order.
C3_HistoryBound ==
  (impl = "core" /\ pc = "idle") =>
    /\ Len(GetHistory) <= HistoryLimit
    /\ LET n == Min(Len(pushed), HistoryLimit) IN
       GetHistory = [i \in 1..n |-> <<LastN(pushed, n)[i].role, LastN(pushed, n)[i].content>>]

\* C3 witness: more than 10 messages were pushed, so the oldest were evicted
C3_Witness == impl = "core" /\ pc = "idle" /\ Len(pushed) > HistoryLimit

\* C4: a get_response call with an empty or whitespace-only input returns the fixed
\* prompt, invokes no backend and leaves the history, the primary backend's context,
\* the backend label and the durable log unchanged.
C4_EmptyInputFrame ==
  [][(pc = "idle" /\ op' = "get_response" /\ Trim(user_input') = <<>>)
       => /\ returned' = Prompt
          /\ pc' = "idle"
          /\ invoked' = <<>>
          /\ UNCHANGED <<conversation_history, gigachat_history, current_model, db>>]_vars

\* C4 witness: a whitespace-only call returned the prompt to an agent with a history
C4_Witness ==
  /\ pc = "idle" /\ op = "get_response" /\ user_input = Blank3
  /\ returned = Prompt /\ conversation_history # <<>> /\ gigachat_history # <<>>

\* C5 as stated: when a backend is invoked the user's message of the turn is already
\* the last entry of the agent's conversation history.
C5_UserPushedBeforeInvoke ==
  (impl = "core" /\ pc \in {"gigachat", "record"}) =>
    /\ conversation_history # <<>>
    /\ conversation_history[Len(conversation_history)] = Message("user", user_input)

\* C5 amended: in a turn of the core agent the backends are invoked with the agent's
\* conversation history still as it was when the turn began (only the primary
\* backend's own context, which is the request, already ends with the user's
\* message), and the user message and then the assistant message are pushed only
\* after the reply has been obtained, the reply being what the turn returns.
C5_PushedAfterReply ==
  [][impl = "core" =>
       /\ pc' \in {"gigachat", "record"} => UNCHANGED <<conversation_history, pushed>>
       /\ (pc = "idle" /\ pc' = "gigachat") =>
            /\ request' # <<>>
            /\ request'[Len(request')] = Message("user", user_input')
       /\ (pc = "record" /\ pc' = "idle") =>
            /\ pushed' = pushed \o <<Message("user", user_input),
                                     Message("assistant", response)>>
            /\ invoked # <<>> /\ response = invoked[Len(invoked)].text
            /\ returned' = response]_vars

\* C5 witness: the primary has replied and the history does not hold the turn yet
C5_Witness ==
  /\ impl = "core" /\ pc = "record" /\ conversation_history = <<>>
  /\ invoked = <<Outcome("GigaChat", TRUE, response)>>

----------------------------------------------------------------------------
(* Properties of the gui *)

\* the get_response calls dispatched and not yet answered to the main loop
Outstanding ==
  Cardinality({t \in tasks : t.kind = "get_response"}) + Len(chan)

\* the step send_message takes
SendStep == ui_pc = "send_message" /\ ui_pc' = "receive"

\* C6: send_message while is_thinking leaves the transcript, the input text, the
\* status and is_thinking as they are and spawns no task; at most one
\* get_response call is dispatched and unanswered in every reachable state, and a
\* get_response task only ever appears in a send_message step that was not
\* ignored, carrying the input text of that step.
C6_SendWhileThinkingIgnored ==
  /\ [](Outstanding <= 1)
  /\ [][(SendStep /\ is_thinking) =>
          UNCHANGED <<messages, input_text, status, is_thinking, tasks, spawned, chan>>]_vars
  /\ [][\A t \in tasks' \ tasks :
          (t.kind = "get_response" /\ t.st = "spawned") =>
            /\ SendStep /\ ~is_thinking
            /\ t.input = input_text /\ Trim(input_text) # <<>>]_vars

\* send_message is invoked with text in the input field while a reply is awaited
C6_Witness ==
  /\ ui_pc = "send_message" /\ is_thinking /\ Trim(input_text) # <<>>
  /\ Outstanding = 1

\* C7: send_message with is_thinking false and input that is not blank appends
\* one ("user", text) entry while no reply is in the channel, empties the input
\* field, sets is_thinking and spawns one get_response task carrying the text;
\* with blank input it changes nothing and spawns nothing.
C7_IdleSend ==
  [][(SendStep /\ ~is_thinking) =>
       IF Trim(input_text) # <<>>
       THEN /\ messages' = Append(messages, <<"user", input_text>>)
            /\ input_text' = <<>>
            /\ is_thinking' = TRUE
            /\ chan' = <<>>
            /\ \E t \in tasks' :
                 /\ t \notin tasks /\ tasks' = tasks \cup {t}
                 /\ t.kind = "get_response" /\ t.st = "spawned"
                 /\ t.input = input_text
       ELSE UNCHANGED <<messages, input_text, status, is_thinking, tasks, spawned,
                        chan>>]_vars

\* send_message has accepted a submission: its entry is the last of the
\* transcript and its task is spawned and has not run
C7_Witness ==
  /\ ui_pc = "receive" /\ is_thinking /\ input_text = <<>>
  /\ messages # <<>> /\ messages[Len(messages)] = <<"user", Hello>>
  /\ \E t \in tasks : t.kind = "get_response" /\ t.st = "spawned" /\ t.input = Hello

\* the step of the greeting check and the receive loop
ReceiveStep == ui_pc = "receive" /\ ui_pc' = "draw"

----------------------------------------------------------------------------
(* Properties of the placement *)

\* the call has yielded its panel
Placed == layout_pc = "done"

\* a side with room for the least wrap width and the gap
LeftViable ==
  layout_in.image_rect.min_x - layout_in.screen.min_x - layout_in.gap
    >= 120 + layout_in.gap
RightViable ==
  layout_in.screen.max_x - layout_in.image_rect.max_x - layout_in.gap
    >= 120 + layout_in.gap

\* the panel and the image have a point in common
PanelMeetsImage ==
  LET panel == CloudRect
      image == layout_in.image_rect
  IN ~ \/ panel.max_x < image.min_x \/ image.max_x < panel.min_x
       \/ panel.max_y < image.min_y \/ image.max_y < panel.min_y

\* C9: with a gap above zero and a viable side, the panel that
\* show_talk_cloud_side yields has no point in common with the image.
C9_PanelOffImage ==
  (Placed /\ layout_in.gap > 0 /\ (LeftViable \/ RightViable)) => ~PanelMeetsImage

\* a panel that ends on the other side than the one chosen first
C9_Witness ==
  /\ Placed /\ layout_in.gap > 0 /\ (LeftViable \/ RightViable)
  /\ place_left # ChoosesLeft(layout_in)
  /\ ~PanelMeetsImage

\* C10: the panel that show_talk_cloud_side yields lies between the top and the
\* bottom of the screen, whatever the image, the screen, the height of the text
\* and max_height are.
C10_PanelWithinScreenHeight ==
  Placed =>
    /\ cloud_min.y >= layout_in.screen.min_y
    /\ cloud_min.y + vis_size.y <= layout_in.screen.max_y

\* the space beside the image, as the claims count it
AvailableLeft ==
  LET d == layout_in.image_rect.min_x - layout_in.screen.min_x - layout_in.gap
  IN IF d > 0 THEN d ELSE 0
AvailableRight ==
  LET d == layout_in.screen.max_x - layout_in.image_rect.max_x - layout_in.gap
  IN IF d > 0 THEN d ELSE 0

\* C11: when a side of the image is viable, the panel that
\* show_talk_cloud_side yields lies between the left and the right edge of the
\* screen.
C11_PanelWithinScreenWidth ==
  (Placed /\ (LeftViable \/ RightViable)) =>
    /\ cloud_min.x >= layout_in.screen.min_x
    /\ cloud_min.x + vis_size.x <= layout_in.screen.max_x

\* C12: when a side of the image is viable, the panel ends on the left exactly
\* when prefer_left holds, left is viable and left has no less space than right
\* or right is not viable, or prefer_left does not hold, left is viable and has
\* more space than right; it ends on the right otherwise.
C12_FinalSide ==
  (Placed /\ (LeftViable \/ RightViable)) =>
    (place_left <=>
       \/ /\ layout_in.prefer_left /\ LeftViable
          /\ (AvailableLeft >= AvailableRight \/ ~RightViable)
       \/ /\ ~layout_in.prefer_left /\ LeftViable
          /\ AvailableLeft > AvailableRight)

\* the scenario of the image (700,500)-(750,560) on the 1024x768 screen with
\* prefer_left, a gap of 20, 110 letters a line and a text of one line
Scenario ==
  /\ layout_in.screen = Rect(0, 0, 1024, 768)
  /\ layout_in.image_rect = Rect(700, 500, 750, 560)
  /\ layout_in.prefer_left /\ layout_in.gap = 20
  /\ layout_in.max_chars_per_line = 110
  /\ layout_in.text_height = 20

\* C13: in the scenario the left space is 680, the panel ends on the left with
\* its right edge at x = 680 and has no point in common with the image.
C13_ScenarioLeftAt680 ==
  (Placed /\ Scenario) =>
    /\ AvailableLeft = 680
    /\ place_left
    /\ cloud_min.x + vis_size.x = 680
    /\ ~PanelMeetsImage

\* C14: when no side of the image is viable the call still yields a panel, and
\* the panel ends on the side that has more space.
C14_LargerSideWhenNoneViable ==
  (~LeftViable /\ ~RightViable) =>
    /\ layout_pc # "panicked"
    /\ Placed =>
         /\ AvailableLeft > AvailableRight => place_left
         /\ AvailableRight > AvailableLeft => ~place_left

\* C15: no call of show_talk_cloud_side aborts, whatever the image, the screen,
\* the gap, max_height and max_chars_per_line are.
C15_NeverAborts == layout_pc # "panicked"

----------------------------------------------------------------------------
(* Properties of the local responder *)

\* two characters are the same letter, in whatever case
SameLetter(a, b) ==
  \/ a = b
  \/ \E i \in 1..Len(UpperChars) : {a, b} = {UpperChars[i], LowerChars[i]}

\* the keyword occurs in the text, the case of the letters set aside
Occurs(kw, text) ==
  \E i \in 1..(Len(text) - Len(kw) + 1) :
    \A j \in 1..Len(kw) : SameLetter(text[i + j - 1], kw[j])

\* the categories in their order, each with its keywords and its reply
Categories ==
  << [keywords |-> {KwPrivet, KwZdravstvuj}, reply |-> GreetingReply],
     [keywords |-> {KwPoka, KwDoSvidaniya}, reply |-> FarewellReply],
     [keywords |-> {KwPomosch, KwPomogi}, reply |-> HelpReply],
     [keywords |-> {KwVremya, KwKotoryjChas}, reply |-> TimeReply] >>

Matches(k, text) == \E kw \in Categories[k].keywords : Occurs(kw, text)

\* C16: the reply of the local responder is the canned reply of the first
\* category, in the order greeting, farewell, help, time, one of whose keywords
\* occurs in the input with the case of the letters set aside, and the default
\* reply when none occurs.
C16_LocalReplyByPriority ==
  local_reply # <<>> =>
    IF \E k \in 1..Len(Categories) : Matches(k, local_input)
    THEN LET first == CHOOSE k \in 1..Len(Categories) :
                        /\ Matches(k, local_input)
                        /\ \A l \in 1..(k - 1) : ~Matches(l, local_input)
         IN local_reply = Categories[first].reply
    ELSE local_reply = DefaultReply

\* the reply to a text in capitals that holds a farewell before a greeting
C16_Witness ==
  /\ local_input = ToUppercase(KwPoka) \o <<" ">> \o Capitalized(KwPrivet)
  /\ local_reply = GreetingReply

----------------------------------------------------------------------------
(* Properties of the gui and the agent together *)

\* no background task is left and the channel has been drained
Quiescent == tasks = {} /\ chan = <<>> /\ lock_holder = 0

\* With one turn and one clear behind it, the transcript shows that the clear
\* was confirmed while the call was in flight: the user's entry, written when
\* the call was dispatched, is gone, and the reply, received later, is there.
ClearedInFlight ==
  /\ turns = 1 /\ clears = 1
  /\ \A i \in 1..Len(messages) : messages[i][1] # "user"
  /\ \E i \in 1..Len(messages) : messages[i] = <<"clippy", returned>>

\* C17: when a clear was confirmed while a get_response call was in flight,
\* then once both tasks have finished and the channel is drained the reply is in
\* the transcript, is_thinking is false and the agent's history holds the
\* messages of that turn.
C17_InFlightReplyKept ==
  (Quiescent /\ ClearedInFlight) =>
    /\ ~is_thinking
    /\ conversation_history =
         <<Message("user", user_input), Message("assistant", returned)>>

\* the tasks that are inside a call of the agent
RunningTasks == {t \in tasks : t.st = "running"}

\* a history made of user messages each followed by its reply
Paired(h) ==
  /\ Len(h) % 2 = 0
  /\ \A i \in 1..Len(h) :
       h[i].role = IF i % 2 = 1 THEN "user" ELSE "assistant"

\* one task at most is inside the agent, it holds the lock, and a turn is under
\* way only inside such a task; the history never shows half a turn
LockKept ==
  /\ Cardinality(RunningTasks) <= 1
  /\ \A t \in RunningTasks : lock_holder = t.id /\ t.kind = "get_response"
  /\ pc # "idle" => RunningTasks # {}
  /\ Paired(conversation_history)

\* while a turn is under way no clear and no other turn touches the agent
TurnUndisturbed ==
  pc # "idle" =>
    /\ clears' = clears /\ turns' = turns /\ op' = op /\ user_input' = user_input
    /\ gigachat_history' = gigachat_history \/ pc = "gigachat"
    /\ conversation_history' = conversation_history \/ (pc = "record" /\ pc' = "idle")

\* a step of the render loop leaves the lock and the agent alone
RenderKeepsOff ==
  ui_pc' # ui_pc => UNCHANGED <<lock_holder, lock_waiters, agentVars>>

\* C18: at most one background task operates on the agent at a time: the lock
\* is held from the start of a get_response turn to its end, no other
\* get_response and no clear_history interleaves with it, no task sees a user
\* message without its reply in the history, and the render loop never takes
\* the lock.
C18_OneTaskOnAgent == []LockKept /\ [][TurnUndisturbed /\ RenderKeepsOff]_vars

\* a clear_history task waits for the lock that a running turn holds
C18_Witness ==
  /\ pc # "idle"
  /\ \E t \in tasks : t.kind = "clear_history" /\ t.st = "waiting"

----------------------------------------------------------------------------
(* Properties of the primary's context and of clear_history *)

\* C19: whenever the primary is invoked its request is the agent's history
\* followed by the new user message, and between turns the primary's own
\* context and the agent's history hold the same messages.
C19_PrimarySeesAgentHistory ==
  (impl = "core" /\ HasGigaChat) =>
    /\ pc = "gigachat" =>
         request = Append(conversation_history, Message("user", user_input))
    /\ pc = "idle" => gigachat_history = conversation_history

\* the records of one session in the durable log, in their order
RowsOf(rows, session) == SelectSeq(rows, LAMBDA r : r.session_id = session)

\* a step in which a clear_history of the agent of src/core/agent.rs completes
ClearCompletes == impl = "core" /\ clears' = clears + 1

\* C20 as stated: after clear_history the history and the primary's context
\* are empty, the log holds no record of the current session and the records
\* of the other sessions are as before.
C20_ClearLeavesNoRecord ==
  [][ClearCompletes =>
       /\ GetHistory' = <<>>
       /\ gigachat_history' = <<>>
       /\ RowsOf(db', ThisSession) = <<>>
       /\ RowsOf(db', OtherSession) = RowsOf(db, OtherSession)]_vars

\* C20, amended: after clear_history the history and the primary's context are
\* empty and the records of the other sessions are as before; the current
\* session's records are gone when the store's delete succeeded, and the whole
\* log is as it was when the delete failed (the failure is only logged).
C20_ClearBestEffort ==
  [][ClearCompletes =>
       /\ GetHistory' = <<>>
       /\ gigachat_history' = <<>>
       /\ RowsOf(db', OtherSession) = RowsOf(db, OtherSession)
       /\ faults' = faults => RowsOf(db', ThisSession) = <<>>
       /\ faults' # faults => db' = db]_vars

\* a clear has completed after a recorded turn and its delete had failed: the
\* history is empty and the session's records are still in the log
C20_Witness ==
  /\ impl = "core" /\ storage /\ op = "clear_history" /\ turns > 0
  /\ conversation_history = <<>> /\ gigachat_history = <<>>
  /\ RowsOf(db, ThisSession) # <<>>
  /\ RowsOf(db, OtherSession) # <<>>

----------------------------------------------------------------------------
(* Properties of the agent and its durable store *)

\* a step in which the core get_response leaves its last phase, the writes to
\* the store, whatever the store did
RecordEnds == impl = "core" /\ pc = "record" /\ pc' # "record"

\* C21: whatever the durable store does (a write or the delete fails, or there
\* is no store), get_response returns the turn's reply and leaves the history
\* extended by the turn's two messages, and clear_history empties the history.
C21_StoreFailureUnseen ==
  [][/\ RecordEnds =>
          /\ pc' = "idle"
          /\ returned' = response
          /\ conversation_history' =
               LET h == conversation_history \o
                          <<Message("user", user_input), Message("assistant", response)>>
               IN  IF Len(h) > HistoryLimit THEN LastN(h, HistoryLimit) ELSE h
     /\ ClearCompletes => conversation_history' = <<>>]_vars

----------------------------------------------------------------------------
(* Properties of the chat window *)

\* the progress is within [0, 1], and full once the visible window has been
\* drawn 7 times since it was shown
ProgressBounded ==
  /\ animation_progress \in 0..AnimationFull
  /\ (chat_visible /\ passes >= 7) => animation_progress = AnimationFull

\* showing sets the progress to 0; while the window stays visible the progress
\* never falls and, once full, stays full; it falls only when the visibility
\* changes
ProgressSteps ==
  /\ (~chat_visible /\ chat_visible') => animation_progress' = 0
  /\ (chat_visible /\ chat_visible') => animation_progress' >= animation_progress
  /\ (chat_visible /\ chat_visible' /\ animation_progress = AnimationFull)
       => animation_progress' = AnimationFull
  /\ animation_progress' < animation_progress => chat_visible' # chat_visible

C23_EscapeCloses ==
  [][app_op' = "escape" =>
       /\ UNCHANGED <<app_messages, app_input_text, app_is_thinking, app_spawned,
                      widget_pending, widgets_loaded, app_image_rect, chat_rect, passes>>
       /\ IF chat_visible
          THEN ~chat_visible' /\ animation_progress' = AnimationFull
          ELSE UNCHANGED <<chat_visible, animation_progress>>]_vars

\* Escape has closed the window while a reply was awaited and the animation
\* was under way: the progress has jumped to 1
C23_Witness ==
  /\ app_op = "escape" /\ ~chat_visible /\ animation_progress = AnimationFull
  /\ passes \in 1..6 /\ app_is_thinking /\ app_messages # <<>>

\* C25: the rectangle of the chat window that draw_chat_window computes does
\* not intersect the image's rectangle, wherever the image is on the screen.
C25_ChatWindowOffImage ==
  app_op = "chat_window" => ~Intersects(chat_rect, app_image_rect)

----------------------------------------------------------------------------
(* Properties of the gui's turns *)

\* the replies in the transcript: the assistant's entries but the greeting
Replies(m) == SelectSeq(m, LAMBDA e : e[1] = "clippy" /\ e[2] # Greeting)

\* C24: every accepted submission is eventually followed by the gui's return to
\* Idle (is_thinking false), with exactly one assistant entry for the turn
\* appended to the transcript, in every fair execution and whatever fails.
C24_TurnEnds ==
  /\ is_thinking ~> ~is_thinking
  /\ [][(is_thinking /\ ~is_thinking') =>
          Len(Replies(messages')) = Len(Replies(messages)) + 1]_vars

----------------------------------------------------------------------------
(* Properties of the secondary path *)

\* C26: the history kept on the OpenAI path never exceeds 10 entries, after any
\* sequence of calls and failed calls: OpenAIClient.conversation_history, and
\* the history of the older ClippyAgent used by get_openai_response.
C26_OpenAIHistoryBound ==
  /\ openai_pc = "idle" => Len(openai_history) <= HistoryLimit
  /\ (impl = "legacy" /\ HasOpenAI /\ pc = "idle")
       => Len(conversation_history) <= HistoryLimit

----------------------------------------------------------------------------
(* Properties of a clear followed by a submission *)

\* With one turn and one clear behind it, the transcript shows that the clear
\* was confirmed before the submission: the user's entry, written when the
\* call was dispatched, is still there, followed by the reply.
ClearedBeforeSubmit ==
  /\ turns = 1 /\ clears = 1 /\ ~is_thinking
  /\ \E i \in 1..Len(messages) : messages[i] = <<"user", user_input>>
  /\ \E i \in 1..Len(messages) : messages[i] = <<"clippy", returned>>

\* C27: a clear confirmed before a later submission is applied to the agent
\* before that submission's turn: once both tasks have finished, the agent's
\* history and, the store not failing, the session's records hold the later
\* turn's user and assistant messages.
C27_ClearBeforeLaterTurn ==
  (Quiescent /\ ClearedBeforeSubmit) =>
    /\ conversation_history =
         <<Message("user", user_input), Message("assistant", returned)>>
    /\ (storage /\ faults = 0) =>
         RowsOf(db, ThisSession) =
           <<Row(ThisSession, "user", user_input, current_model),
             Row(ThisSession, "assistant", returned, current_model)>>

----------------------------------------------------------------------------
(* Properties of the primary's failures and of the pairs of the history *)

\* a step in which the primary's call returns an error
PrimaryFails ==
  /\ pc = "gigachat"
  /\ \E i \in 1..Len(invoked') : invoked'[i] = Outcome("GigaChat", FALSE, <<>>)

\* (the request is the context before the call followed by the user message,
\* as long as nothing was trimmed)
\* C28: when GigaChatClient::get_response returns an error the client's
\* conversation_history is as it was before the call, so the next request
\* does not hold the failed turn's user message.
C28_FailedCallLeavesContext ==
  [][(PrimaryFails /\ Len(request) < HistoryLimit)
       => gigachat_history' = SubSeq(request, 1, Len(request) - 1)]_vars

\* the core agent is between two operations
BetweenOperations == impl = "core" /\ pc = "idle"

\* C29: between operations of the core agent conversation_history has even
\* length, at most 10, and is made of (user, assistant) pairs starting with a
\* user message, each pair's reply being the text get_response returned for
\* the pair's user input.
C29_HistoryOfPairs ==
  /\ BetweenOperations =>
       /\ Len(conversation_history) \in {0, 2, 4, 6, 8, 10}
       /\ \A i \in 1..Len(conversation_history) :
            conversation_history[i].role = IF i % 2 = 1 THEN "user" ELSE "assistant"
  /\ (BetweenOperations /\ TurnReturned) =>
       /\ Len(conversation_history) >= 2
       /\ conversation_history[Len(conversation_history) - 1] =
            Message("user", user_input)
       /\ conversation_history[Len(conversation_history)] =
            Message("assistant", returned)

\* C30: whenever the bubble is hidden the transcript is non-empty and ends
\* with a message of the assistant, so that draw_show_button is reached and the
\* panel can be opened again.
C30_HiddenBubbleHasShowButton ==
  ~cloud_visible =>
    /\ Len(messages) > 0
    /\ messages[Len(messages)][1] = "clippy"

\* the bubble is hidden over a transcript that holds a question and its reply
C30_Witness ==
  /\ ~cloud_visible /\ ui_pc = "draw"
  /\ Len(messages) >= 2
  /\ messages[Len(messages)][1] = "clippy"
  /\ messages[Len(messages) - 1][1] = "user"

====
